---- MODULE Spec2Model ----
(***************************************************************************)
(* Model of src/distribution_center.py: the package ledger kept in the     *)
(* SQLite database (tables Categories, Locations, Packages, AuditTrail)    *)
(* and the operations of PackageManager on it.                             *)
(*                                                                         *)
(* Strings that the code inspects (lower(), `in`, count()) are sequences   *)
(* of one-character strings, so that the comparisons are computed as the   *)
(* code computes them.  Weights are in tenths of a kilogram (25.0 kg is    *)
(* 250), so that 2.5 kg is a whole number.                                 *)
(***************************************************************************)
EXTENDS Integers, Sequences, FiniteSets, TLC

VARIABLES categories, locations, packages, audit, last, proc, now

vars == <<categories, locations, packages, audit, last, proc, now>>

(***************************************************************************)
(* Bounds of the model.                                                    *)
(***************************************************************************)
\* barcodes the callers use: 1 .. MaxBarcode
MaxBarcode == 3
\* aisles per category provisioned (the deployment uses range(1, 6))
MaxAisle == 1
\* shelves per aisle provisioned (the deployment uses range(1, 5))
MaxShelf == 2
\* rows of AuditTrail after which no further call is made
MaxAudit == 4
\* connections that run register_package concurrently
MaxProc == 2
\* seconds of CURRENT_TIMESTAMP that pass: 0 .. MaxClock
MaxClock == 1
\* rows of AuditTrail up to which the summary report is requested
MaxReportRows == 2

(***************************************************************************)
(* Python string operations.                                               *)
(***************************************************************************)
UpperLetters == <<"A","B","C","D","E","F","G","H","I","J","K","L","M",
                  "N","O","P","Q","R","S","T","U","V","W","X","Y","Z">>

LowerLetters == <<"a","b","c","d","e","f","g","h","i","j","k","l","m",
                  "n","o","p","q","r","s","t","u","v","w","x","y","z">>

Digits == <<"0","1","2","3","4","5","6","7","8","9">>

\* str.lower() on one character
LowerChar(c) ==
    IF \E i \in 1..26 : UpperLetters[i] = c
    THEN LowerLetters[CHOOSE i \in 1..26 : UpperLetters[i] = c]
    ELSE c

\* str.lower()
Lower(s) == [i \in 1..Len(s) |-> LowerChar(s[i])]

\* sub in s
Contains(s, sub) ==
    \E k \in 0..(Len(s) - Len(sub)) :
        \A i \in 1..Len(sub) : s[k + i] = sub[i]

\* s.count(c) for a single character c
Count(s, c) == Cardinality({i \in 1..Len(s) : s[i] = c})

\* f"{n:02d}"
Pad2(n) == <<Digits[((n \div 10) % 10) + 1], Digits[(n % 10) + 1]>>

\* chr(64 + n)
Chr64(n) == UpperLetters[n]

\* SQL NULL in a text column: no string has a character of this length
NULL == <<"NULL">>

\* Optional[int] None, and SQL NULL in an integer column
NoId == 0

sExpress == <<"E","x","p","r","e","s","s">>
sStandard == <<"S","t","a","n","d","a","r","d">>
sexpress == <<"e","x","p","r","e","s","s">>
sinternational == <<"i","n","t","e","r","n","a","t","i","o","n","a","l">>
sStored == <<"S","t","o","r","e","d">>
sInTransit == <<"I","n"," ","T","r","a","n","s","i","t">>
sDelivered == <<"D","e","l","i","v","e","r","e","d">>
sDELIVERED == <<"D","E","L","I","V","E","R","E","D">>
sdelivered == <<"d","e","l","i","v","e","r","e","d">>

(***************************************************************************)
(* DistributionCenterDB._populate_initial_data                             *)
(***************************************************************************)
CategorySeed ==
    << [category_name |-> "Standard",      zone |-> "A", max_weight |-> 300,  priority_level |-> 3],
       [category_name |-> "Express",       zone |-> "B", max_weight |-> 250,  priority_level |-> 1],
       [category_name |-> "Fragile",       zone |-> "C", max_weight |-> 200,  priority_level |-> 2],
       [category_name |-> "Heavy",         zone |-> "D", max_weight |-> 1000, priority_level |-> 4],
       [category_name |-> "International", zone |-> "E", max_weight |-> 500,  priority_level |-> 2] >>

NumCategories == 5

\* f"{zone}{aisle:02d}-{shelf:02d}"
LocationCode(zone, aisle, shelf) == <<zone>> \o Pad2(aisle) \o <<"-">> \o Pad2(shelf)

\* INSERT OR IGNORE INTO Categories: a row whose category_name exists is skipped
InsertOrIgnoreCategory(cats, c) ==
    IF \E i \in 1..Len(cats) : cats[i].category_name = c.category_name
    THEN cats
    ELSE Append(cats, [category_id |-> Len(cats) + 1] @@ c)

RECURSIVE InsertCategories(_, _, _)
InsertCategories(cats, seed, k) ==
    IF k > Len(seed) THEN cats
    ELSE InsertCategories(InsertOrIgnoreCategory(cats, seed[k]), seed, k + 1)

\* a plain INSERT INTO Locations on a table without the UNIQUE constraint
InsertOrIgnoreLocation_Plain(locs, cat_id, aisle, shelf) ==
    Append(locs, [location_id |-> Len(locs) + 1,
                  location_code |-> LocationCode(Chr64(cat_id), aisle, shelf),
                  zone |-> Chr64(cat_id),
                  aisle |-> aisle,
                  shelf |-> shelf,
                  category_id |-> cat_id,
                  is_occupied |-> FALSE])

\* INSERT OR IGNORE INTO Locations: a row whose location_code exists is skipped
InsertOrIgnoreLocation(locs, cat_id, aisle, shelf) ==
    LET zone == Chr64(cat_id)
        code == LocationCode(zone, aisle, shelf)
    IN  IF \E i \in 1..Len(locs) : locs[i].location_code = code
        THEN locs
        ELSE Append(locs, [location_id |-> Len(locs) + 1,
                           location_code |-> code,
                           zone |-> zone,
                           aisle |-> aisle,
                           shelf |-> shelf,
                           category_id |-> cat_id,
                           is_occupied |-> FALSE])

\* the three nested loops over cat_id, aisle, shelf, flattened to one index
RECURSIVE InsertLocations(_, _)
InsertLocations(locs, k) ==
    IF k >= NumCategories * MaxAisle * MaxShelf THEN locs
    ELSE LET cat_id == (k \div (MaxAisle * MaxShelf)) + 1
             aisle  == ((k \div MaxShelf) % MaxAisle) + 1
             shelf  == (k % MaxShelf) + 1
         IN  InsertLocations(InsertOrIgnoreLocation(locs, cat_id, aisle, shelf), k + 1)

(***************************************************************************)
(* PackageManager.categorize_package                                       *)
(***************************************************************************)
\* the rules with the weight rules tried before the priority rule
categorize_package_WeightFirst(weight, priority, destination) ==
    IF weight > 500 THEN [id |-> 4, name |-> "Heavy"]
    ELSE IF Lower(priority) = sexpress THEN [id |-> 2, name |-> "Express"]
    ELSE IF Contains(Lower(destination), sinternational) \/ Count(destination, ",") > 1
         THEN [id |-> 5, name |-> "International"]
    ELSE IF weight < 50 THEN [id |-> 3, name |-> "Fragile"]
    ELSE [id |-> 1, name |-> "Standard"]

categorize_package(weight, priority, destination) ==
    IF Lower(priority) = sexpress THEN [id |-> 2, name |-> "Express"]
    ELSE IF Contains(Lower(destination), sinternational) \/ Count(destination, ",") > 1
         THEN [id |-> 5, name |-> "International"]
    ELSE IF weight > 500 THEN [id |-> 4, name |-> "Heavy"]
    ELSE IF weight < 50 THEN [id |-> 3, name |-> "Fragile"]
    ELSE [id |-> 1, name |-> "Standard"]

(***************************************************************************)
(* PackageManager.find_available_location                                  *)
(***************************************************************************)
\* SELECT ... WHERE category_id = ? AND is_occupied = 0 LIMIT 1: SQLite scans
\* the table in rowid order, so the row with the lowest location_id is returned
FreeLocations(locs, category_id) ==
    {i \in 1..Len(locs) : locs[i].category_id = category_id /\ ~locs[i].is_occupied}

\* a lookup that falls back to the first row of the category when none is free
find_available_location_Fallback(locs, category_id) ==
    LET rows == {i \in 1..Len(locs) : locs[i].category_id = category_id}
        free == {i \in rows : ~locs[i].is_occupied}
        pick == IF free = {} THEN rows ELSE free
    IN  IF pick = {} THEN NoId
        ELSE locs[CHOOSE i \in pick : \A j \in pick : i <= j].location_id

\* a lookup that forgets the category_id = ? condition
find_available_location_AnyCategory(locs, category_id) ==
    LET free == {i \in 1..Len(locs) : ~locs[i].is_occupied}
    IN  IF free = {} THEN NoId
        ELSE locs[CHOOSE i \in free : \A j \in free : i <= j].location_id

find_available_location(locs, category_id) ==
    LET free == FreeLocations(locs, category_id)
    IN  IF free = {} THEN NoId
        ELSE locs[CHOOSE i \in free : \A j \in free : i <= j].location_id

(***************************************************************************)
(* generate_sample_packages: the attribute tuples the callers register.    *)
(***************************************************************************)
Samples ==
    << [weight |-> 250,  length |-> 30, width |-> 20, height |-> 15, priority |-> sExpress,
        destination |-> <<"N","e","w"," ","Y","o","r","k",","," ","U","S","A">>],
       [weight |-> 50,   length |-> 15, width |-> 10, height |-> 8,  priority |-> sStandard,
        destination |-> <<"L","o","s"," ","A","n","g","e","l","e","s",","," ","U","S","A">>],
       [weight |-> 25,   length |-> 10, width |-> 8,  height |-> 5,  priority |-> sStandard,
        destination |-> <<"C","h","i","c","a","g","o",","," ","U","S","A">>],
       [weight |-> 750,  length |-> 60, width |-> 50, height |-> 40, priority |-> sStandard,
        destination |-> <<"H","o","u","s","t","o","n",","," ","U","S","A">>],
       [weight |-> 150,  length |-> 25, width |-> 20, height |-> 18, priority |-> sStandard,
        destination |-> <<"L","o","n","d","o","n",","," ","U","K",","," ","I","n","t","e","r","n","a","t","i","o","n","a","l">>],
       [weight |-> 30,   length |-> 12, width |-> 10, height |-> 6,  priority |-> sExpress,
        destination |-> <<"M","i","a","m","i",","," ","U","S","A">>],
       [weight |-> 1000, length |-> 80, width |-> 60, height |-> 50, priority |-> sStandard,
        destination |-> <<"S","e","a","t","t","l","e",","," ","U","S","A">>] >>

\* the samples the model registers: an Express one and a Heavy one
SampleIds == {1, 4}

Barcodes == 1..MaxBarcode

\* update_status_ui: the statuses the callers ask for
NewStatuses == {sStored, sInTransit, sDelivered, sDELIVERED}

(***************************************************************************)
(* PackageManager.register_package                                         *)
(***************************************************************************)
\* a barcode check that looks at the newest row only
BarcodeExists_NewestOnly(pk, barcode) ==
    Len(pk) > 0 /\ pk[Len(pk)].barcode = barcode

\* a barcode check that skips the packages already delivered
BarcodeExists_SkipDelivered(pk, barcode) ==
    \E i \in 1..Len(pk) : pk[i].barcode = barcode /\ Lower(pk[i].status) # sdelivered

\* SELECT barcode FROM Packages WHERE barcode = ?, and the UNIQUE constraint
\* on Packages.barcode
BarcodeExists(pk, barcode) == \E i \in 1..Len(pk) : pk[i].barcode = barcode

\* INSERT INTO Packages ... 'Stored'; package_id is AUTOINCREMENT
InsertPackage(pk, barcode, s, category_id, location_id) ==
    Append(pk, [package_id  |-> Len(pk) + 1,
                barcode     |-> barcode,
                weight      |-> s.weight,
                length      |-> s.length,
                width       |-> s.width,
                height      |-> s.height,
                destination |-> s.destination,
                priority    |-> s.priority,
                category_id |-> category_id,
                location_id |-> location_id,
                status      |-> sStored,
                received_at |-> now])

\* UPDATE Locations SET is_occupied = ? WHERE location_id = ?
SetOccupied(locs, location_id, flag) ==
    [i \in 1..Len(locs) |->
        IF locs[i].location_id = location_id
        THEN [locs[i] EXCEPT !.is_occupied = flag]
        ELSE locs[i]]

\* SELECT location_code FROM Locations WHERE location_id = ?
LocationCodeOf(locs, location_id) ==
    IF \E i \in 1..Len(locs) : locs[i].location_id = location_id
    THEN locs[CHOOSE i \in 1..Len(locs) : locs[i].location_id = location_id].location_code
    ELSE NULL

\* an audit row that puts the location code in the old_location column
AuditRegistered_OldColumn(aud, package_id, location_code, category_name) ==
    Append(aud, [audit_id     |-> Len(aud) + 1,
                 package_id   |-> package_id,
                 action       |-> "REGISTERED",
                 old_status   |-> NULL,
                 new_status   |-> sStored,
                 old_location |-> location_code,
                 new_location |-> NULL,
                 timestamp    |-> now,
                 notes        |-> <<"Package categorized as ", category_name>>])

\* INSERT INTO AuditTrail ... 'REGISTERED', 'Stored'
AuditRegistered(aud, package_id, location_code, category_name) ==
    Append(aud, [audit_id     |-> Len(aud) + 1,
                 package_id   |-> package_id,
                 action       |-> "REGISTERED",
                 old_status   |-> NULL,
                 new_status   |-> sStored,
                 old_location |-> NULL,
                 new_location |-> location_code,
                 timestamp    |-> now,
                 notes        |-> <<"Package categorized as ", category_name>>])

\* what a call returned: ok is the bool returned, err names the message printed
\* (line 208 DuplicateBarcode, line 220 NoAvailableLocation, line 305
\* PackageNotFound, lines 264 and 337 DatabaseError)
Outcome(op, barcode, sample, status, ok, err) ==
    [op |-> op, barcode |-> barcode, sample |-> sample, status |-> status,
     ok |-> ok, err |-> err]

RegisterPackage(barcode, sid) ==
    LET s   == Samples[sid]
        cat == categorize_package(s.weight, s.priority, s.destination)
        location_id == find_available_location(locations, cat.id)
        package_id  == Len(packages) + 1
    IN  /\ Len(audit) < MaxAudit
        /\ IF BarcodeExists(packages, barcode)
           THEN /\ last' = Outcome("register", barcode, sid, NULL, FALSE, "DuplicateBarcode")
                /\ UNCHANGED <<packages, locations, audit>>
           ELSE IF location_id = NoId
           THEN /\ last' = Outcome("register", barcode, sid, NULL, FALSE, "NoAvailableLocation")
                /\ UNCHANGED <<packages, locations, audit>>
           ELSE /\ packages' = InsertPackage(packages, barcode, s, cat.id, location_id)
                /\ locations' = SetOccupied(locations, location_id, TRUE)
                /\ audit' = AuditRegistered(audit, package_id,
                                LocationCodeOf(locations', location_id), cat.name)
                /\ last' = Outcome("register", barcode, sid, NULL, TRUE, "")
        /\ UNCHANGED <<categories, proc, now>>

(***************************************************************************)
(* PackageManager.search_package                                           *)
(***************************************************************************)
NoPackage == [package_id |-> NoId]

\* a search that leaves out the packages already delivered
SearchRows_SkipDelivered(pk, cats, barcode) ==
    {i \in 1..Len(pk) :
        /\ pk[i].barcode = barcode
        /\ Lower(pk[i].status) # sdelivered
        /\ \E c \in 1..Len(cats) : cats[c].category_id = pk[i].category_id}

\* a join that forgets the WHERE p.barcode = ? condition
SearchRows_NoWhere(pk, cats, barcode) ==
    {i \in 1..Len(pk) :
        \E c \in 1..Len(cats) : cats[c].category_id = pk[i].category_id}

\* the rows of Packages JOIN Categories LEFT JOIN Locations WHERE p.barcode = ?
SearchRows(pk, cats, barcode) ==
    {i \in 1..Len(pk) :
        /\ pk[i].barcode = barcode
        /\ \E c \in 1..Len(cats) : cats[c].category_id = pk[i].category_id}

search_package(pk, cats, locs, barcode) ==
    LET rows == SearchRows(pk, cats, barcode)
    IN  IF rows = {} THEN NoPackage
        ELSE LET p == pk[CHOOSE i \in rows : \A j \in rows : i <= j]
                 c == cats[CHOOSE c \in 1..Len(cats) : cats[c].category_id = p.category_id]
             IN  [package_id  |-> p.package_id,
                  barcode     |-> p.barcode,
                  weight      |-> p.weight,
                  dimensions  |-> <<p.length, "x", p.width, "x", p.height>>,
                  destination |-> p.destination,
                  priority    |-> p.priority,
                  status      |-> p.status,
                  received_at |-> p.received_at,
                  category    |-> c.category_name,
                  location    |-> LocationCodeOf(locs, p.location_id)]

SearchPackage(barcode) ==
    /\ last' = Outcome("search", barcode, 0, NULL,
                       search_package(packages, categories, locations, barcode) # NoPackage, "")
    /\ UNCHANGED <<categories, locations, packages, audit, proc, now>>

(***************************************************************************)
(* PackageManager.update_package_status                                    *)
(***************************************************************************)
\* an UPDATE of the status that forgets the WHERE barcode = ? condition
SetStatus_NoWhere(pk, barcode, new_status) ==
    [i \in 1..Len(pk) |-> [pk[i] EXCEPT !.status = new_status]]

\* UPDATE Packages SET status = ? WHERE barcode = ?
SetStatus(pk, barcode, new_status) ==
    [i \in 1..Len(pk) |->
        IF pk[i].barcode = barcode
        THEN [pk[i] EXCEPT !.status = new_status]
        ELSE pk[i]]

\* SELECT location_id FROM Packages WHERE barcode = ? (scalar subquery)
LocationIdOf(pk, barcode) ==
    IF BarcodeExists(pk, barcode)
    THEN pk[CHOOSE i \in 1..Len(pk) :
              /\ pk[i].barcode = barcode
              /\ \A j \in 1..Len(pk) : pk[j].barcode = barcode => i <= j].location_id
    ELSE NoId

\* a status change written over the newest audit row instead of appended
AuditStatusUpdate_Overwrite(aud, package_id, old_status, new_status) ==
    [aud EXCEPT ![Len(aud)] =
                [audit_id     |-> Len(aud),
                 package_id   |-> package_id,
                 action       |-> "STATUS_UPDATE",
                 old_status   |-> old_status,
                 new_status   |-> new_status,
                 old_location |-> NULL,
                 new_location |-> NULL,
                 timestamp    |-> now,
                 notes        |-> <<"Status changed from ", old_status, " to ", new_status>>]]

\* an audit row whose old status is read after the UPDATE of the status
AuditStatusUpdate_StaleOld(aud, package_id, old_status, new_status) ==
    Append(aud, [audit_id     |-> Len(aud) + 1,
                 package_id   |-> package_id,
                 action       |-> "STATUS_UPDATE",
                 old_status   |-> new_status,
                 new_status   |-> new_status,
                 old_location |-> NULL,
                 new_location |-> NULL,
                 timestamp    |-> now,
                 notes        |-> <<"Status changed from ", new_status, " to ", new_status>>])

\* INSERT INTO AuditTrail ... 'STATUS_UPDATE'
AuditStatusUpdate(aud, package_id, old_status, new_status) ==
    Append(aud, [audit_id     |-> Len(aud) + 1,
                 package_id   |-> package_id,
                 action       |-> "STATUS_UPDATE",
                 old_status   |-> old_status,
                 new_status   |-> new_status,
                 old_location |-> NULL,
                 new_location |-> NULL,
                 timestamp    |-> now,
                 notes        |-> <<"Status changed from ", old_status, " to ", new_status>>])

UpdatePackageStatus(barcode, new_status) ==
    LET package == search_package(packages, categories, locations, barcode)
    IN  /\ Len(audit) < MaxAudit
        /\ IF package = NoPackage
           THEN /\ last' = Outcome("update", barcode, 0, new_status, FALSE, "PackageNotFound")
                /\ UNCHANGED <<packages, locations, audit>>
           ELSE /\ packages' = SetStatus(packages, barcode, new_status)
                /\ locations' = IF Lower(new_status) = sdelivered
                                THEN SetOccupied(locations, LocationIdOf(packages', barcode), FALSE)
                                ELSE locations
                /\ audit' = AuditStatusUpdate(audit, package.package_id,
                                              package.status, new_status)
                /\ last' = Outcome("update", barcode, 0, new_status, TRUE, "")
        /\ UNCHANGED <<categories, proc, now>>

(***************************************************************************)
(* PackageManager.get_summary_report.  by_category, by_status and          *)
(* location_occupancy are the sets of their rows (the order of these rows  *)
(* is not modelled); rates are in hundredths of a percent.                 *)
(***************************************************************************)
RecentLimit == 10

\* Categories LEFT JOIN Packages GROUP BY category: (category_name, count)
ByCategory(cats, pk) ==
    {<<cats[c].category_name,
       Cardinality({i \in 1..Len(pk) : pk[i].category_id = cats[c].category_id})>> :
        c \in 1..Len(cats)}

\* Packages GROUP BY status: (status, count)
ByStatus(pk) ==
    {<<st, Cardinality({i \in 1..Len(pk) : pk[i].status = st})>> :
        st \in {pk[i].status : i \in 1..Len(pk)}}

\* ROUND(occupied * 100.0 / total, 2)
OccupancyRate(occupied, total) == (occupied * 20000 + total) \div (2 * total)

\* Locations GROUP BY zone: (zone, total_locations, occupied, occupancy_rate)
LocationOccupancy(locs) ==
    {LET total    == Cardinality({l \in 1..Len(locs) : locs[l].zone = z})
         occupied == Cardinality({l \in 1..Len(locs) :
                                     locs[l].zone = z /\ locs[l].is_occupied})
     IN  <<z, total, occupied, OccupancyRate(occupied, total)>> :
        z \in {locs[l].zone : l \in 1..Len(locs)}}

\* the rows of AuditTrail JOIN Packages ON package_id
JoinedAudit(aud, pk) ==
    {a \in 1..Len(aud) : \E i \in 1..Len(pk) : pk[i].package_id = aud[a].package_id}

\* ORDER BY a.timestamp DESC: every order of the joined rows in which the
\* timestamps do not increase; SQL leaves the order of equal timestamps open
RecentOrders(aud, pk) ==
    LET rows == JoinedAudit(aud, pk)
        n    == Cardinality(rows)
    IN  {o \in [1..n -> rows] :
            /\ \A i, j \in 1..n : i # j => o[i] # o[j]
            /\ \A i, j \in 1..n : i < j => aud[o[i]].timestamp >= aud[o[j]].timestamp}

\* SELECT p.barcode, a.action, a.timestamp, a.notes ... LIMIT 10
RecentActivities(aud, pk, o) ==
    LET n == IF Len(o) < RecentLimit THEN Len(o) ELSE RecentLimit
    IN  [k \in 1..n |->
            LET a == aud[o[k]]
                p == pk[CHOOSE i \in 1..Len(pk) : pk[i].package_id = a.package_id]
            IN  <<p.barcode, a.action, a.timestamp, a.notes>>]

GetSummaryReport ==
    /\ Len(audit) <= MaxReportRows
    /\ \E o \in RecentOrders(audit, packages) :
          last' = Outcome("report", 0, 0, NULL, TRUE, "")
                  @@ [report |-> [by_category        |-> ByCategory(categories, packages),
                                  by_status          |-> ByStatus(packages),
                                  location_occupancy |-> LocationOccupancy(locations),
                                  recent_activities  |-> RecentActivities(audit, packages, o)]]
    /\ UNCHANGED <<categories, locations, packages, audit, proc, now>>

(***************************************************************************)
(* DistributionCenterDB.initialize_database run again on the database.     *)
(***************************************************************************)
InitializeDatabase ==
    /\ categories' = InsertCategories(categories, CategorySeed, 1)
    /\ locations' = InsertLocations(locations, 0)
    /\ last' = Outcome("initialize", 0, 0, NULL, TRUE, "")
    /\ UNCHANGED <<packages, audit, proc, now>>

\* CURRENT_TIMESTAMP moves on to the next second
Tick ==
    /\ now < MaxClock
    /\ now' = now + 1
    /\ UNCHANGED <<categories, locations, packages, audit, last, proc>>

(***************************************************************************)
(* The program with one connection: main() runs one call at a time.        *)
(***************************************************************************)
IdleProc == [pc |-> "idle", barcode |-> 0, sample |-> 0, category_id |-> 0, location_id |-> NoId]

Init ==
    /\ categories = InsertCategories(<< >>, CategorySeed, 1)
    /\ locations = InsertLocations(<< >>, 0)
    /\ packages = << >>
    /\ audit = << >>
    /\ last = Outcome("init", 0, 0, NULL, TRUE, "")
    /\ proc = [p \in 1..MaxProc |-> IdleProc]
    /\ now = 0

Next ==
    \/ \E b \in Barcodes, sid \in SampleIds : RegisterPackage(b, sid)
    \/ \E b \in Barcodes, ns \in NewStatuses : UpdatePackageStatus(b, ns)
    \/ \E b \in Barcodes : SearchPackage(b)
    \/ GetSummaryReport
    \/ InitializeDatabase

Spec == Init /\ [][Next]_vars

\* the same calls while the clock of CURRENT_TIMESTAMP advances
NextClock == Next \/ Tick

SpecClock == Init /\ [][NextClock]_vars

(***************************************************************************)
(* Several connections to the same database file, each running             *)
(* register_package statement by statement.  The two SELECTs run in        *)
(* autocommit mode; the INSERT opens the transaction that the commit ends, *)
(* and SQLite admits one write transaction at a time, so the statements    *)
(* from the INSERT to the commit are one step for every other connection.  *)
(* search_package is one SELECT; get_summary_report runs its four SELECTs  *)
(* in autocommit mode, each reading the database as committed at its time. *)
(***************************************************************************)
Procs == 1..MaxProc

\* lines 202-214: the barcode check and categorize_package
RegStart(p, barcode, sid) ==
    LET s   == Samples[sid]
        cat == categorize_package(s.weight, s.priority, s.destination)
    IN  /\ proc[p].pc = "idle"
        /\ Len(audit) < MaxAudit
        /\ IF BarcodeExists(packages, barcode)
           THEN /\ last' = Outcome("register", barcode, sid, NULL, FALSE, "DuplicateBarcode")
                /\ UNCHANGED proc
           ELSE /\ proc' = [proc EXCEPT ![p] = [pc |-> "find", barcode |-> barcode,
                                sample |-> sid, category_id |-> cat.id,
                                location_id |-> NoId]]
                /\ UNCHANGED last
        /\ UNCHANGED <<categories, locations, packages, audit, now>>

\* lines 216-221: find_available_location
RegFind(p) ==
    LET location_id == find_available_location(locations, proc[p].category_id)
    IN  /\ proc[p].pc = "find"
        /\ IF location_id = NoId
           THEN /\ last' = Outcome("register", proc[p].barcode, proc[p].sample, NULL,
                                   FALSE, "NoAvailableLocation")
                /\ proc' = [proc EXCEPT ![p] = IdleProc]
           ELSE /\ proc' = [proc EXCEPT ![p].pc = "write", ![p].location_id = location_id]
                /\ UNCHANGED last
        /\ UNCHANGED <<categories, locations, packages, audit, now>>

\* lines 223-266: the write transaction; the INSERT raises IntegrityError when
\* the barcode has been inserted meanwhile, which is rolled back
RegWrite(p) ==
    LET barcode == proc[p].barcode
        s   == Samples[proc[p].sample]
        cat == categorize_package(s.weight, s.priority, s.destination)
        location_id == proc[p].location_id
        package_id  == Len(packages) + 1
    IN  /\ proc[p].pc = "write"
        /\ IF BarcodeExists(packages, barcode)
           THEN /\ last' = Outcome("register", barcode, proc[p].sample, NULL,
                                   FALSE, "DatabaseError")
                /\ UNCHANGED <<packages, locations, audit>>
           ELSE /\ packages' = InsertPackage(packages, barcode, s, cat.id, location_id)
                /\ locations' = SetOccupied(locations, location_id, TRUE)
                /\ audit' = AuditRegistered(audit, package_id,
                                LocationCodeOf(locations', location_id), cat.name)
                /\ last' = Outcome("register", barcode, proc[p].sample, NULL, TRUE, "")
        /\ proc' = [proc EXCEPT ![p] = IdleProc]
        /\ UNCHANGED <<categories, now>>

\* search_package on connection p
SearchConc(p, barcode) ==
    /\ proc[p].pc = "idle"
    /\ last' = Outcome("search", barcode, 0, NULL,
                       search_package(packages, categories, locations, barcode) # NoPackage, "")
    /\ UNCHANGED <<categories, locations, packages, audit, proc, now>>

\* lines 346-353: the first SELECT of get_summary_report
RepByCategory(p) ==
    /\ proc[p].pc = "idle"
    /\ Len(audit) <= MaxReportRows
    /\ proc' = [proc EXCEPT ![p] =
                   [pc |-> "by_status",
                    by_category |-> ByCategory(categories, packages)]]
    /\ UNCHANGED <<categories, locations, packages, audit, last, now>>

\* lines 356-361: the second SELECT
RepByStatus(p) ==
    /\ proc[p].pc = "by_status"
    /\ proc' = [proc EXCEPT ![p] =
                   [pc |-> "location_occupancy",
                    by_category |-> proc[p].by_category,
                    by_status |-> ByStatus(packages)]]
    /\ UNCHANGED <<categories, locations, packages, audit, last, now>>

\* lines 364-373: the third SELECT
RepLocationOccupancy(p) ==
    /\ proc[p].pc = "location_occupancy"
    /\ proc' = [proc EXCEPT ![p] =
                   [pc |-> "recent_activities",
                    by_category |-> proc[p].by_category,
                    by_status |-> proc[p].by_status,
                    location_occupancy |-> LocationOccupancy(locations)]]
    /\ UNCHANGED <<categories, locations, packages, audit, last, now>>

\* lines 376-389: the fourth SELECT and the return of the report
RepRecentActivities(p) ==
    /\ proc[p].pc = "recent_activities"
    /\ \E o \in RecentOrders(audit, packages) :
          last' = Outcome("report", 0, 0, NULL, TRUE, "")
                  @@ [report |-> [by_category        |-> proc[p].by_category,
                                  by_status          |-> proc[p].by_status,
                                  location_occupancy |-> proc[p].location_occupancy,
                                  recent_activities  |-> RecentActivities(audit, packages, o)]]
    /\ proc' = [proc EXCEPT ![p] = IdleProc]
    /\ UNCHANGED <<categories, locations, packages, audit, now>>

NextConc ==
    \/ \E p \in Procs, b \in Barcodes, sid \in SampleIds : RegStart(p, b, sid)
    \/ \E p \in Procs : RegFind(p)
    \/ \E p \in Procs : RegWrite(p)
    \/ \E p \in Procs, b \in Barcodes : SearchConc(p, b)
    \/ \E p \in Procs : RepByCategory(p)
    \/ \E p \in Procs : RepByStatus(p)
    \/ \E p \in Procs : RepLocationOccupancy(p)
    \/ \E p \in Procs : RepRecentActivities(p)

SpecConc == Init /\ [][NextConc]_vars

(***************************************************************************)
(* categorize_package applied to the attributes a caller can type in       *)
(* register_package_ui.                                                    *)
(***************************************************************************)
\* weights 0.0 .. 60.0 kg in steps of 0.1 kg
MaxCatWeight == 600

sEXPRESS == <<"E","X","P","R","E","S","S">>
sExpres == <<"E","x","p","r","e","s">>
sBoston == <<"B","o","s","t","o","n",","," ","U","S","A">>
sLondon == <<"L","o","n","d","o","n",","," ","U","K",","," ","I","n","t","e","r","n","a","t","i","o","n","a","l">>
sINTERNATIONAL == <<"I","N","T","E","R","N","A","T","I","O","N","A","L">>
sThreeParts == <<"L","y","o","n",","," ","R","h","o","n","e",","," ","F","r","a","n","c","e">>
sParis == <<"P","a","r","i","s">>
sInternationalParcel == <<"i","n","t","e","r","n","a","t","i","o","n","a","l"," ","p","a","r","c","e","l",","," ","O","s","l","o">>

CatWeights == 0..MaxCatWeight

CatPriorities == {sExpress, sexpress, sEXPRESS, sExpres, sStandard, << >>}

CatDestinations == {sBoston, sLondon, sINTERNATIONAL, sThreeParts, sParis,
                    sInternationalParcel}

InitCat ==
    /\ categories = InsertCategories(<< >>, CategorySeed, 1)
    /\ locations = InsertLocations(<< >>, 0)
    /\ packages = << >>
    /\ audit = << >>
    /\ proc = [p \in 1..MaxProc |-> IdleProc]
    /\ now = 0
    /\ \E w \in CatWeights, p \in CatPriorities, d \in CatDestinations :
          last = [op |-> "args", weight |-> w, priority |-> p, destination |-> d]

CategorizeCall ==
    /\ last.op = "args"
    /\ last' = [op          |-> "categorize",
                weight      |-> last.weight,
                priority    |-> last.priority,
                destination |-> last.destination,
                category    |-> categorize_package(last.weight, last.priority,
                                                   last.destination)]
    /\ UNCHANGED <<categories, locations, packages, audit, proc, now>>

NextCat == CategorizeCall

SpecCat == InitCat /\ [][NextCat]_vars

(***************************************************************************)
(* Properties.                                                             *)
(***************************************************************************)
\* the status test of update_package_status, line 316
IsDelivered(status) == Lower(status) = sdelivered

PackageIds == 1..Len(packages)

\* the package rows holding a barcode
RowsOf(pk, barcode) == {i \in 1..Len(pk) : pk[i].barcode = barcode}

\* the location rows of a category that are not occupied
FreeIn(locs, category_id) ==
    {l \in 1..Len(locs) : locs[l].category_id = category_id /\ ~locs[l].is_occupied}

CategoryOfSample(sid) ==
    categorize_package(Samples[sid].weight, Samples[sid].priority, Samples[sid].destination).id

\* C1: no two packages whose status is Stored or In Transit have the same
\* location id.
C1_NoSharedLocation ==
    \A i, j \in PackageIds :
        (/\ i # j
         /\ packages[i].status \in {sStored, sInTransit}
         /\ packages[j].status \in {sStored, sInTransit})
        => packages[i].location_id # packages[j].location_id

\* C2: in every zone the number of occupied locations equals the number of
\* packages that are not delivered and whose location lies in the zone.
C2_OccupancyConservation ==
    \A z \in {locations[l].zone : l \in 1..Len(locations)} :
        Cardinality({l \in 1..Len(locations) :
                        locations[l].zone = z /\ locations[l].is_occupied})
        = Cardinality({i \in PackageIds :
                        /\ ~IsDelivered(packages[i].status)
                        /\ \E l \in 1..Len(locations) :
                              /\ locations[l].location_id = packages[i].location_id
                              /\ locations[l].zone = z})

\* C3: a package has a location id if and only if it is not delivered.
C3_LocationIffNotDelivered ==
    \A i \in PackageIds :
        (packages[i].location_id # NoId) <=> ~IsDelivered(packages[i].status)

\* C4: update_package_status(barcode, "Delivered") on a Stored package marks
\* the package's location unoccupied and clears the package's location
\* reference, and the location is then free for a register of that category.
C4_DeliveryReleasesLocation ==
    [][ \A i \in PackageIds :
          (/\ last'.op = "update" /\ last'.ok
           /\ last'.status = sDelivered
           /\ packages[i].barcode = last'.barcode
           /\ packages[i].status = sStored)
          => /\ \A l \in 1..Len(locations') :
                   locations'[l].location_id = packages[i].location_id
                   => /\ ~locations'[l].is_occupied
                      /\ l \in FreeIn(locations', packages[i].category_id)
             /\ packages'[i].location_id = NoId ]_vars

\* C5: register calls that run concurrently are never assigned the same
\* location (no package is delivered under SpecConc, so every package holds
\* the location it was given).
C5_MutualExclusion ==
    \A i, j \in PackageIds :
        i # j => packages[i].location_id # packages[j].location_id

\* C6 as stated: a register whose category has no free location fails with
\* NoAvailableLocation and changes no package, location or audit row.
C6_ExhaustionAsStated ==
    [][ (/\ last'.op = "register"
         /\ FreeIn(locations, CategoryOfSample(last'.sample)) = {})
        => /\ ~last'.ok
           /\ last'.err = "NoAvailableLocation"
           /\ UNCHANGED <<packages, locations, audit>> ]_vars

\* C6 amended: a register of a barcode that is not yet in the system, whose
\* category has no free location, fails with NoAvailableLocation and changes
\* no package, location or audit row.
C6_Exhaustion ==
    [][ (/\ last'.op = "register"
         /\ RowsOf(packages, last'.barcode) = {}
         /\ FreeIn(locations, CategoryOfSample(last'.sample)) = {})
        => /\ ~last'.ok
           /\ last'.err = "NoAvailableLocation"
           /\ UNCHANGED <<packages, locations, audit>> ]_vars

\* a register of a new barcode has just failed on a full category
C6_Witness ==
    /\ last.op = "register"
    /\ last.err = "NoAvailableLocation"
    /\ RowsOf(packages, last.barcode) = {}
    /\ FreeIn(locations, CategoryOfSample(last.sample)) = {}

\* C7: no two packages have the same barcode.
C7_UniqueBarcode ==
    \A i, j \in PackageIds :
        i # j => packages[i].barcode # packages[j].barcode

\* two packages are stored and a register of one of their barcodes was refused
C7_Witness ==
    /\ Len(packages) >= 2
    /\ last.op = "register"
    /\ last.err = "DuplicateBarcode"
    /\ \E i \in PackageIds : i < Len(packages) /\ packages[i].barcode = last.barcode

\* C8: a register with a barcode that a package already has, whatever that
\* package's status, fails with DuplicateBarcode and changes no package,
\* location or audit row.
C8_DuplicateBarcode ==
    [][ (/\ last'.op = "register"
         /\ RowsOf(packages, last'.barcode) # {})
        => /\ ~last'.ok
           /\ last'.err = "DuplicateBarcode"
           /\ UNCHANGED <<packages, locations, audit>> ]_vars

\* a register with the barcode of a delivered package has just been refused
C8_Witness ==
    /\ last.op = "register"
    /\ last.err = "DuplicateBarcode"
    /\ \E i \in PackageIds :
          packages[i].barcode = last.barcode /\ packages[i].status = sDelivered

\* C9: an update of a barcode that no package has fails with PackageNotFound
\* and changes no package, location or audit row.
C9_PackageNotFound ==
    [][ (/\ last'.op = "update"
         /\ RowsOf(packages, last'.barcode) = {})
        => /\ ~last'.ok
           /\ last'.err = "PackageNotFound"
           /\ UNCHANGED <<packages, locations, audit>> ]_vars

\* an update of an unknown barcode has just been refused while other packages
\* exist
C9_Witness ==
    /\ last.op = "update"
    /\ last.err = "PackageNotFound"
    /\ RowsOf(packages, last.barcode) = {}
    /\ Len(packages) >= 1

\* C10: a successful register appends exactly one audit row: REGISTERED, the
\* id of the new package, new status Stored and the code of the location the
\* package was given; a failed register appends none.
C10_RegisterAudit ==
    [][ /\ (last'.op = "register" /\ last'.ok)
           => /\ Len(packages') = Len(packages) + 1
              /\ Len(audit') = Len(audit) + 1
              /\ SubSeq(audit', 1, Len(audit)) = audit
              /\ LET e == audit'[Len(audit')]
                     p == packages'[Len(packages')]
                 IN  /\ p.barcode = last'.barcode
                     /\ e.action = "REGISTERED"
                     /\ e.package_id = p.package_id
                     /\ e.new_status = sStored
                     /\ \E l \in 1..Len(locations') :
                           /\ locations'[l].location_id = p.location_id
                           /\ locations'[l].location_code = e.new_location
        /\ (last'.op = "register" /\ ~last'.ok) => audit' = audit ]_vars

\* a register has just succeeded after status updates were logged
C10_Witness ==
    /\ last.op = "register"
    /\ last.ok
    /\ Len(audit) > Len(packages)
    /\ audit[Len(audit)].action = "REGISTERED"

\* C11: a successful update appends exactly one audit row: STATUS_UPDATE, the
\* status the package had before the call as old status and the requested
\* status as new status; a failed update appends none.
C11_UpdateAudit ==
    [][ /\ (last'.op = "update" /\ last'.ok)
           => /\ Len(audit') = Len(audit) + 1
              /\ SubSeq(audit', 1, Len(audit)) = audit
              /\ \E i \in PackageIds :
                    /\ packages[i].barcode = last'.barcode
                    /\ audit'[Len(audit')].action = "STATUS_UPDATE"
                    /\ audit'[Len(audit')].package_id = packages[i].package_id
                    /\ audit'[Len(audit')].old_status = packages[i].status
                    /\ audit'[Len(audit')].new_status = last'.status
        /\ (last'.op = "update" /\ ~last'.ok) => audit' = audit ]_vars

\* an update that changed the status of a package has just succeeded
C11_Witness ==
    /\ last.op = "update"
    /\ last.ok
    /\ Len(audit) >= 2
    /\ audit[Len(audit)].action = "STATUS_UPDATE"
    /\ audit[Len(audit)].old_status # audit[Len(audit)].new_status

\* C12: the audit log is append-only: every call (register, update, search,
\* summary report, re-initialisation) leaves the rows it found unchanged and
\* in place, so the earlier log is a prefix of the later one.
C12_AppendOnly ==
    [][ /\ Len(audit') >= Len(audit)
        /\ SubSeq(audit', 1, Len(audit)) = audit ]_vars

\* the log holds rows of both kinds and the database has just been
\* initialised again
C12_Witness ==
    /\ last.op = "initialize"
    /\ \E a, b \in 1..Len(audit) :
          audit[a].action = "REGISTERED" /\ audit[b].action = "STATUS_UPDATE"

\* the priority tags of CatPriorities that equal "express" when case is ignored
ExpressTags == {sExpress, sexpress, sEXPRESS}

\* the destinations of CatDestinations that contain "international" when case
\* is ignored, or two or more commas
InternationalDestinations == {sLondon, sINTERNATIONAL, sThreeParts, sInternationalParcel}

\* C13: categorize applies its rules in strict order, first match wins:
\* express tag gives Express; else an international destination gives
\* International; else weight > 50.0 gives Heavy; else weight < 5.0 gives
\* Fragile; else Standard.
C13_Categorize ==
    last.op = "categorize" =>
        last.category =
            IF last.priority \in ExpressTags THEN [id |-> 2, name |-> "Express"]
            ELSE IF last.destination \in InternationalDestinations
                 THEN [id |-> 5, name |-> "International"]
            ELSE IF last.weight > 500 THEN [id |-> 4, name |-> "Heavy"]
            ELSE IF last.weight < 50 THEN [id |-> 3, name |-> "Fragile"]
            ELSE [id |-> 1, name |-> "Standard"]

\* categorize(60.0, "Express", "Boston, USA") has returned Express
C13_Witness ==
    /\ last.op = "categorize"
    /\ last.weight = 600
    /\ last.priority = sExpress
    /\ last.destination = sBoston
    /\ last.category.name = "Express"

CategoryNames(cats) == {cats[c].category_name : c \in 1..Len(cats)}

LocationCodes(locs) == {locs[l].location_code : l \in 1..Len(locs)}

\* C14: running the initialisation again, in any state, creates no duplicate
\* category and no duplicate location: the category names and the location
\* codes are the same sets as before and each occurs in one row.
C14_InitIdempotent ==
    [][ last'.op = "initialize"
        => /\ CategoryNames(categories') = CategoryNames(categories)
           /\ LocationCodes(locations') = LocationCodes(locations)
           /\ Len(categories') = Cardinality(CategoryNames(categories'))
           /\ Len(locations') = Cardinality(LocationCodes(locations'))
           /\ Len(categories') = NumCategories
           /\ Len(locations') = NumCategories * MaxAisle * MaxShelf ]_vars

\* the initialisation has just run again on a database that holds a package
\* in an occupied location
C14_Witness ==
    /\ last.op = "initialize"
    /\ Len(packages) >= 1
    /\ \E l \in 1..Len(locations) : locations[l].is_occupied

\* the sum of the k-th components of the rows of a report section
RECURSIVE SumColumn(_, _)
SumColumn(rows, k) ==
    IF rows = {} THEN 0
    ELSE LET r == CHOOSE r \in rows : TRUE
         IN  r[k] + SumColumn(rows \ {r}, k)

\* the REGISTERED rows among the recent activities of a report
RegisteredRows(recent) == {k \in 1..Len(recent) : recent[k][2] = "REGISTERED"}

C16_RegisteredPlacement ==
    [][ (last'.op = "register" /\ last'.ok)
        => LET p == packages'[Len(packages')]
           IN  /\ p.barcode = last'.barcode
               /\ p.status = sStored
               /\ p.category_id = CategoryOfSample(last'.sample)
               /\ \E l \in 1..Len(locations'), c \in 1..Len(categories') :
                     /\ locations'[l].location_id = p.location_id
                     /\ categories'[c].category_id = p.category_id
                     /\ locations'[l].category_id = p.category_id
                     /\ locations'[l].zone = categories'[c].zone
                     /\ locations'[l].location_code[1] = categories'[c].zone ]_vars

\* the Heavy sample (75.0 kg, Standard, "Houston, USA") has just been
\* registered into a location of zone D
C16_Witness ==
    /\ last.op = "register"
    /\ last.ok
    /\ last.sample = 4
    /\ packages[Len(packages)].category_id = 4
    /\ \E l \in 1..Len(locations) :
          /\ locations[l].location_id = packages[Len(packages)].location_id
          /\ locations[l].zone = "D"

\* the location rows bound to a category
PoolOf(locs, category_id) == {l \in 1..Len(locs) : locs[l].category_id = category_id}

\* C17: for every category, find_available_location returns a location that
\* is unoccupied and bound to the category, and returns none exactly when
\* every location of the category is occupied.
C17_FindFreeLocation ==
    \A c \in 1..NumCategories :
        LET r == find_available_location(locations, c)
        IN  /\ (r = NoId) <=> (\A l \in PoolOf(locations, c) : locations[l].is_occupied)
            /\ r # NoId => \E l \in PoolOf(locations, c) :
                              /\ locations[l].location_id = r
                              /\ ~locations[l].is_occupied

\* one category is full, and in another the first location is taken and a
\* later one is returned
C17_Witness ==
    \E c, d \in 1..NumCategories :
        /\ find_available_location(locations, c) = NoId
        /\ find_available_location(locations, d) # NoId
        /\ \E l \in PoolOf(locations, d) :
              /\ locations[l].is_occupied
              /\ locations[l].location_id < find_available_location(locations, d)

\* the audit rows newest first: later timestamp first and, among equal
\* timestamps, the row inserted later first
NewestFirst(aud, pk) ==
    LET rows == JoinedAudit(aud, pk)
        n    == Cardinality(rows)
    IN  CHOOSE o \in [1..n -> rows] :
            \A i, j \in 1..n : i < j =>
                \/ aud[o[i]].timestamp > aud[o[j]].timestamp
                \/ /\ aud[o[i]].timestamp = aud[o[j]].timestamp
                   /\ aud[o[i]].audit_id > aud[o[j]].audit_id

\* C18: the recent activities of a summary report are the RecentLimit most
\* recent audit rows, newest first, rows of equal timestamp in the order of
\* their insertion sequence, so that one audit log gives one list.
C18_RecentActivities ==
    last.op = "report" =>
        last.report.recent_activities
            = RecentActivities(audit, packages, NewestFirst(audit, packages))

\* C19: an update of a barcode that a package has succeeds for every new
\* status whatever the current status is, also out of Delivered, and gives
\* the package the new status.
C19_NoTransitionValidation ==
    [][ (/\ last'.op = "update"
         /\ RowsOf(packages, last'.barcode) # {})
        => /\ last'.ok
           /\ \A i \in RowsOf(packages, last'.barcode) :
                 packages'[i].status = last'.status ]_vars

\* an update from Delivered to Stored has just succeeded
C19_Witness ==
    /\ last.op = "update"
    /\ last.ok
    /\ last.status = sStored
    /\ audit[Len(audit)].old_status = sDelivered
    /\ \E i \in PackageIds :
          packages[i].barcode = last.barcode /\ packages[i].status = sStored

\* C20: an update of package P never clears the occupied flag of a location
\* that is the location of another package Q that is not delivered.
C20_KeepsOthersLocation ==
    [][ last'.op = "update"
        => \A l \in 1..Len(locations) :
              (locations[l].is_occupied /\ ~locations'[l].is_occupied)
              => ~\E q \in PackageIds :
                     /\ packages[q].barcode # last'.barcode
                     /\ packages[q].location_id = locations[l].location_id
                     /\ ~IsDelivered(packages[q].status) ]_vars

\* the statuses of NewStatuses that equal "delivered" when case is ignored
DeliveredTags == {sDelivered, sDELIVERED, sdelivered}

\* C21: a successful update to a status other than "delivered" (case
\* ignored) changes the status of the addressed package and nothing else in
\* Packages and Locations, and appends one audit row.
C21_UpdateFrame ==
    [][ (/\ last'.op = "update"
         /\ last'.ok
         /\ last'.status \notin DeliveredTags)
        => /\ locations' = locations
           /\ Len(packages') = Len(packages)
           /\ \A i \in PackageIds :
                 packages'[i] = IF packages[i].barcode = last'.barcode
                                THEN [packages[i] EXCEPT !.status = last'.status]
                                ELSE packages[i]
           /\ Len(audit') = Len(audit) + 1
           /\ SubSeq(audit', 1, Len(audit)) = audit
           /\ categories' = categories ]_vars

\* a package has just been set to In Transit while another package with a
\* different status is stored and locations are occupied
C21_Witness ==
    /\ last.op = "update"
    /\ last.ok
    /\ last.status = sInTransit
    /\ \E i, j \in PackageIds :
          /\ packages[i].barcode = last.barcode
          /\ packages[i].status = sInTransit
          /\ packages[j].barcode # last.barcode
          /\ packages[j].status # sInTransit
          /\ \E l \in 1..Len(locations) :
                /\ locations[l].location_id = packages[i].location_id
                /\ locations[l].is_occupied

====
